---- MODULE Spec2Model ----
(***************************************************************************)
(* A model of fwupd-hybris (src/fwupd.py): the FWUPDInterface object, its  *)
(* one-shot aggregation pass set_props (run by the constructor), the       *)
(* property reader extract_prop, and the D-Bus facade served afterwards.   *)
(*                                                                         *)
(* Python strings are TLA+ strings; a text file is the sequence of its     *)
(* lines, each line keeping its trailing newline as file iteration does.   *)
(* A local variable of set_props that has not been assigned yet is a name  *)
(* missing from the DOMAIN of the frame's "locals" function: reading it    *)
(* raises UnboundLocalError, as in Python.                                 *)
(***************************************************************************)
EXTENDS Integers, Sequences, FiniteSets, TLC

VARIABLES
    pc,         \* "new" | "exported" | "crashed"; or "call" | "returned" (extract_prop alone)
    fs,         \* the seven candidate property files: path index -> [exists, lines]
    machine_id_file, \* /etc/machine-id: [exists, text]
    bootconfig, \* /proc/bootconfig: [err, lines]
    ofono,      \* the telephony manager: [status, modems]
    hal,        \* binder-call output per sensor ABI version
    props,      \* self.props
    probed,     \* the external sources consulted so far, in order
    origin,     \* for each entry of props.Devices, the source that contributed it
    exc,        \* the exception that left the constructor ("" for none)
    reply,      \* the last reply of the facade: [op, value]
    prop,       \* the key of a direct extract_prop call
    result      \* what that call produced: [raised, value]

vars == <<pc, fs, machine_id_file, bootconfig, ofono, hal, props, probed, origin, exc, reply, prop, result>>

-----------------------------------------------------------------------------
(* Python str operations, computed on characters.                          *)

Char(s, i) == SubSeq(s, i, i)

Min(S) == CHOOSE x \in S : \A y \in S : x <= y

Max(S) == CHOOSE x \in S : \A y \in S : x >= y

\* str.strip() with no argument removes these (the ASCII whitespace).
Whitespace == {" ", "\t", "\n", "\r", "\f"}

\* The first position from i on whose character is not in chars (Len(s) + 1 for none).
RECURSIVE SkipForward(_, _, _)
SkipForward(s, chars, i) ==
    IF i <= Len(s) /\ Char(s, i) \in chars THEN SkipForward(s, chars, i + 1) ELSE i

\* The last position up to j whose character is not in chars (0 for none).
RECURSIVE SkipBackward(_, _, _)
SkipBackward(s, chars, j) ==
    IF j >= 1 /\ Char(s, j) \in chars THEN SkipBackward(s, chars, j - 1) ELSE j

\* s.strip(chars): drop leading and trailing characters that are in chars.
StripChars(s, chars) ==
    LET first == SkipForward(s, chars, 1)
        last == SkipBackward(s, chars, Len(s))
    IN  IF first > last THEN "" ELSE SubSeq(s, first, last)

Strip(s) == StripChars(s, Whitespace)

\* s.startswith(p)
StartsWith(s, p) == Len(p) <= Len(s) /\ SubSeq(s, 1, Len(p)) = p

\* sub in s
Contains(s, sub) ==
    \E i \in 1..(Len(s) - Len(sub) + 1) : SubSeq(s, i, i + Len(sub) - 1) = sub

\* s.split(sep) for a one-character separator: the list of the fields.
RECURSIVE SplitFrom(_, _, _)
SplitFrom(s, sep, from) ==
    LET hits == {i \in from..Len(s) : Char(s, i) = sep}
    IN  IF hits = {} THEN <<SubSeq(s, from, Len(s))>>
        ELSE <<SubSeq(s, from, Min(hits) - 1)>> \o SplitFrom(s, sep, Min(hits) + 1)

Split(s, sep) == SplitFrom(s, sep, 1)

LowerLetters == "abcdefghijklmnopqrstuvwxyz"

UpperLetters == "ABCDEFGHIJKLMNOPQRSTUVWXYZ"

UpperChar(c) ==
    IF \E i \in 1..26 : Char(LowerLetters, i) = c
    THEN Char(UpperLetters, CHOOSE i \in 1..26 : Char(LowerLetters, i) = c)
    ELSE c

LowerChar(c) ==
    IF \E i \in 1..26 : Char(UpperLetters, i) = c
    THEN Char(LowerLetters, CHOOSE i \in 1..26 : Char(UpperLetters, i) = c)
    ELSE c

\* s.upper()
RECURSIVE Upper(_)
Upper(s) == IF s = "" THEN "" ELSE UpperChar(Char(s, 1)) \o Upper(SubSeq(s, 2, Len(s)))

\* s.lower()
RECURSIVE Lower(_)
Lower(s) == IF s = "" THEN "" ELSE LowerChar(Char(s, 1)) \o Lower(SubSeq(s, 2, Len(s)))

\* Mutant of Capitalize: upper() in its place.
CapitalizeAsUpper(s) == Upper(s)

\* s.capitalize(): first character upper-cased, the rest lower-cased.
Capitalize(s) ==
    IF s = "" THEN "" ELSE UpperChar(Char(s, 1)) \o Lower(SubSeq(s, 2, Len(s)))

-----------------------------------------------------------------------------
(* extract_prop                                                            *)

NoExc == ""

prop_files == 1..7

\* The loop variable "file" after the for loop: the first existing path,
\* or the last candidate when the loop ran to its end without a break.
LoopFile(files) ==
    IF \E p \in prop_files : files[p].exists
    THEN Min({p \in prop_files : files[p].exists})
    ELSE Max(prop_files)

\* The first line of the file that starts with the key (0 for none).
FirstMatch(lines, key) ==
    IF \E i \in 1..Len(lines) : StartsWith(lines[i], key)
    THEN Min({i \in 1..Len(lines) : StartsWith(lines[i], key)})
    ELSE 0

extract_prop(files, key) ==
    LET file == LoopFile(files)
        lines == files[file].lines
        i == FirstMatch(lines, key)
    IN  IF ~files[file].exists
        THEN [raised |-> "FileNotFoundError", value |-> ""]
        ELSE IF i = 0
        THEN [raised |-> NoExc, value |-> ""]
        ELSE IF Len(Split(lines[i], "=")) < 2
        THEN [raised |-> "IndexError", value |-> ""]
        ELSE [raised |-> NoExc, value |-> Strip(Split(lines[i], "=")[2])]

-----------------------------------------------------------------------------
(* set_props, stage by stage.  A frame is the state of one run: the        *)
(* exception in flight (NoExc for none), self.props, the probe log, the    *)
(* origin of each device, and the local variables bound so far.  A stage   *)
(* leaves a frame with an exception in flight untouched: the exception     *)
(* propagates out of set_props and out of the constructor.                 *)

Bound(f, name) == name \in DOMAIN f.locals

Bind(f, name, value) ==
    [f EXCEPT !.locals =
        [x \in (DOMAIN f.locals) \cup {name} |-> IF x = name THEN value ELSE f.locals[x]]]

Raise(f, e) == [f EXCEPT !.exc = e]

Probe(f, source) == [f EXCEPT !.probed = Append(@, source)]

SetProp(f, name, value) == [f EXCEPT !.props = [@ EXCEPT ![name] = value]]

\* Mutant of AppendDevice: a device equal to one already listed is dropped.
AppendDeviceDedup(f, device, source) ==
    IF device \in {f.props.Devices[i] : i \in 1..Len(f.props.Devices)} THEN f
    ELSE [f EXCEPT !.props = [@ EXCEPT !.Devices = Append(@, device)],
                   !.origin = Append(@, source)]

\* self.props['Devices'].value.append(device)
AppendDevice(f, device, source) ==
    [f EXCEPT !.props = [@ EXCEPT !.Devices = Append(@, device)],
              !.origin = Append(@, source)]

Device(name, vendor, version, serial) ==
    [DeviceId |-> "1", Name |-> name, Vendor |-> vendor, Version |-> version,
     Plugin |-> "hybris", Protocol |-> "hybris", Flags |-> 2, Serial |-> serial]

\* Lines 42-46: HostVendor and HostProduct.
HostStage(env, f) ==
    LET v == extract_prop(env.fs, "ro.product.vendor.manufacturer")
        f1 == Probe(f, "build.prop")
        f2 == SetProp(Bind(f1, "vendor", v.value), "HostVendor",
                      IF v.value # "" THEN Upper(v.value) ELSE "")
        c == extract_prop(env.fs, "ro.product.vendor.name")
        f3 == Probe(f2, "build.prop")
    IN  IF v.raised # NoExc THEN Raise(f1, v.raised)
        ELSE IF c.raised # NoExc THEN Raise(f3, c.raised)
        ELSE SetProp(Bind(f3, "codename", c.value), "HostProduct",
                     IF c.value # "" THEN Upper(c.value) ELSE "")

\* Lines 48-54: HostMachineId.
MachineIdStage(env, f) ==
    IF f.exc # NoExc THEN f
    ELSE SetProp(Probe(f, "machine-id"), "HostMachineId",
                 IF env.machine_id_file.exists THEN env.machine_id_file.text ELSE "")

\* Lines 59-66: what one line of the boot configuration binds.
BootLine(f, line) ==
    LET parts == Split(line, "=")
        value == StripChars(Strip(parts[2]), {"\""})
        f1 == IF Contains(line, "androidboot.bootloader") /\ Len(parts) = 2
              THEN Bind(f, "bootloader", value) ELSE f
    IN  IF Contains(line, "androidboot.serialno") /\ Len(parts) = 2
        THEN Bind(f1, "bootloader_serialno", value) ELSE f1

RECURSIVE BootLines(_, _, _)
BootLines(f, lines, i) ==
    IF i > Len(lines) THEN f ELSE BootLines(BootLine(f, lines[i]), lines, i + 1)

\* Lines 56-68: the boot configuration, and the fallback when reading it fails
\* (at open, or after the lines read so far).
BootConfigStage(env, f) ==
    LET f1 == Probe(f, "bootconfig")
        read == IF env.bootconfig.err = "open" THEN f1
                ELSE BootLines(f1, env.bootconfig.lines, 1)
        b == extract_prop(env.fs, "ro.bootloader")
        f2 == Probe(read, "build.prop")
    IN  IF f.exc # NoExc THEN f
        ELSE IF env.bootconfig.err = "none" THEN read
        ELSE IF b.raised # NoExc THEN Raise(f2, b.raised)
        ELSE Bind(f2, "bootloader", b.value)

\* Lines 70-82: the bootloader device.
BootloaderStage(f) ==
    IF f.exc # NoExc THEN f
    ELSE IF ~Bound(f, "bootloader") THEN Raise(f, "UnboundLocalError")
    ELSE IF f.locals["bootloader"] = "" THEN f
    ELSE IF ~Bound(f, "bootloader_serialno") THEN Raise(f, "UnboundLocalError")
    ELSE AppendDevice(f,
            Device(f.locals["bootloader"],
                   IF f.locals["vendor"] # ""
                   THEN Capitalize(f.locals["vendor"]) \o " Bootloader" ELSE "",
                   "1",
                   f.locals["bootloader_serialno"]),
            "bootloader")

ModemFields == <<"Revision", "Serial", "SoftwareVersionNumber">>

ModemLocal(field) ==
    CASE field = "Revision" -> "modem_rev"
      [] field = "Serial" -> "modem_serial"
      [] field = "SoftwareVersionNumber" -> "modem_ver"

\* Lines 89-94: what one well-formed modem record binds.
RECURSIVE ModemRecord(_, _, _)
ModemRecord(f, properties, k) ==
    IF k > Len(ModemFields) THEN f
    ELSE ModemRecord(IF ModemFields[k] \in DOMAIN properties
                     THEN Bind(f, ModemLocal(ModemFields[k]), properties[ModemFields[k]])
                     ELSE f,
                     properties, k + 1)

\* Lines 88-96: the loop over the reply; a record that does not unpack as
\* (path, properties) raises inside the try block.
RECURSIVE ModemLoop(_, _, _)
ModemLoop(f, modems, i) ==
    IF i > Len(modems) THEN Bind(f, "ofono", TRUE)
    ELSE IF ~modems[i].wellformed THEN Bind(f, "ofono", FALSE)
    ELSE ModemLoop(ModemRecord(f, modems[i].properties, 1), modems, i + 1)

\* Lines 84-98: the telephony probe.
TelephonyStage(env, f) ==
    IF f.exc # NoExc THEN f
    ELSE IF env.ofono.status # "reply" THEN Bind(Probe(f, "ofono"), "ofono", FALSE)
    ELSE ModemLoop(Probe(f, "ofono"), env.ofono.modems, 1)

\* Lines 100-112: the modem device.
ModemStage(f) ==
    IF f.exc # NoExc THEN f
    ELSE IF ~f.locals["ofono"] THEN f
    ELSE IF ~(Bound(f, "modem_rev") /\ Bound(f, "modem_ver") /\ Bound(f, "modem_serial"))
    THEN Raise(f, "UnboundLocalError")
    ELSE AppendDevice(f,
            Device(f.locals["modem_rev"],
                   IF f.locals["vendor"] # ""
                   THEN Capitalize(f.locals["vendor"]) \o " Modem" ELSE "",
                   IF f.locals["modem_ver"] # "" THEN f.locals["modem_ver"] ELSE "1",
                   f.locals["modem_serial"]),
            "modem")

sensor_hal == <<"1.0", "2.0", "2.1">>

\* Mutant of SensorLoop: the break is missing, every version is invoked.
RECURSIVE SensorLoopNoBreak(_, _, _)
SensorLoopNoBreak(env, f, i) ==
    IF i > Len(sensor_hal) THEN f
    ELSE SensorLoopNoBreak(env,
            [f EXCEPT !.probed = Append(@, "sensors@" \o sensor_hal[i]),
                      !.locals = [@ EXCEPT !["sensor_out"] = env.hal[sensor_hal[i]]]],
            i + 1)

\* Lines 117-123: one binder-call per ABI version, until an output is
\* non-empty after strip().
RECURSIVE SensorLoop(_, _, _)
SensorLoop(env, f, i) ==
    IF i > Len(sensor_hal) THEN f
    ELSE LET out == env.hal[sensor_hal[i]]
             f1 == Bind(Probe(f, "sensors@" \o sensor_hal[i]), "sensor_out", out)
         IN  IF Strip(out) # "" THEN f1 ELSE SensorLoop(env, f1, i + 1)

\* Lines 114-123: the sensor probe.
SensorStage(env, f) ==
    IF f.exc # NoExc THEN f
    ELSE SensorLoop(env, Bind(f, "sensor_out", ""), 1)

Digits == {"0", "1", "2", "3", "4", "5", "6", "7", "8", "9"}

\* The text at position i is the literal lit.
Lit(s, i, lit) == i + Len(lit) - 1 <= Len(s) /\ SubSeq(s, i, i + Len(lit) - 1) = lit

\* Where the longest run of digits starting at i ends (\d+ is greedy and the
\* pattern continues with a non-digit, so only the longest run can match).
DigitsEnd(s, i) == SkipForward(s, Digits, i)

\* The same for [^"]+, which the pattern follows with a quote.
RECURSIVE NonQuoteEnd(_, _)
NonQuoteEnd(s, i) ==
    IF i <= Len(s) /\ Char(s, i) # "\"" THEN NonQuoteEnd(s, i + 1) ELSE i

\* Line 126: { (\d+) \d+ "([^"]+)"H "([^"]+)"H (\d+) } matched at position i.
MatchAt(s, i) ==
    LET a == i + 2
        b == DigitsEnd(s, a)
        c == b + 1
        d == DigitsEnd(s, c)
        e == d + 2
        g == NonQuoteEnd(s, e)
        h == g + 4
        k == NonQuoteEnd(s, h)
        l == k + 3
        m == DigitsEnd(s, l)
    IN  IF /\ Lit(s, i, "{ ") /\ b > a
           /\ Lit(s, b, " ") /\ d > c
           /\ Lit(s, d, " \"") /\ g > e
           /\ Lit(s, g, "\"H \"") /\ k > h
           /\ Lit(s, k, "\"H ") /\ m > l
           /\ Lit(s, m, " }")
        THEN [ok |-> TRUE, end |-> m + 2,
              groups |-> <<SubSeq(s, a, b - 1), SubSeq(s, e, g - 1),
                           SubSeq(s, h, k - 1), SubSeq(s, l, m - 1)>>]
        ELSE [ok |-> FALSE, end |-> i, groups |-> <<>>]

\* Line 127: pattern.findall(s), the non-overlapping matches from the left.
RECURSIVE FindAllFrom(_, _)
FindAllFrom(s, i) ==
    IF i > Len(s) THEN <<>>
    ELSE LET m == MatchAt(s, i)
         IN  IF m.ok THEN <<m.groups>> \o FindAllFrom(s, m.end)
             ELSE FindAllFrom(s, i + 1)

FindAll(s) == FindAllFrom(s, 1)

\* Mutant of SensorDevice: the sensor number goes to the version, the
\* version to the serial.
SensorDeviceSwapped(match) ==
    [DeviceId |-> "1", Name |-> match[2], Vendor |-> match[3], Version |-> match[1],
     Plugin |-> "hybris", Protocol |-> "hybris", Flags |-> 2, Serial |-> match[4]]

\* Lines 131-143: the device of one match (sensor_id, sensor_name,
\* sensor_vendor, sensor_ver).
SensorDevice(match) ==
    Device(match[2], match[3], IF match[4] # "" THEN match[4] ELSE "1", match[1])

RECURSIVE SensorDevices(_, _, _)
SensorDevices(f, matches, i) ==
    IF i > Len(matches) THEN f
    ELSE SensorDevices(AppendDevice(f, SensorDevice(matches[i]), "sensor"), matches, i + 1)

\* Lines 125-145: the devices of the sensor output.
SensorParseStage(f) ==
    IF f.exc # NoExc THEN f
    ELSE IF Strip(f.locals["sensor_out"]) = "" THEN f
    ELSE SensorDevices(f, FindAll(f.locals["sensor_out"]), 1)

\* Lines 41-145.
set_props(env, f) ==
    LET host == HostStage(env, f)
        machine == MachineIdStage(env, host)
        boot == BootConfigStage(env, machine)
        bootloader == BootloaderStage(boot)
        telephony == TelephonyStage(env, bootloader)
        modem == ModemStage(telephony)
        probe == SensorStage(env, modem)
    IN  SensorParseStage(probe)

-----------------------------------------------------------------------------
(* The environment the program runs in.                                    *)

MaxModems == 2

SeqsUpTo(S, n) == UNION {[1..k -> S] : k \in 0..n}

NoFile == [exists |-> FALSE, lines |-> <<>>]

File(lines) == [exists |-> TRUE, lines |-> lines]

AcmeProps ==
    <<"ro.product.vendor.manufacturer=acme\n", "ro.product.vendor.name=widget\n">>

FallbackProps ==
    <<"# build properties\n", "ro.bootloader=fbl\n", "ro.product.vendor.name = Widget \n">>

PrefixProps ==
    <<"ro.product.vendor.name_alias=gadget\n", "ro.product.vendor.name=widget\n",
      "ro.bootloader\n", "ro.product.vendor.manufacturer=Acme=Corp\n">>

DecoyProps ==
    <<"ro.product.vendor.manufacturer=decoy\n", "ro.product.vendor.name=decoy\n",
      "ro.bootloader=decoy\n">>

PropContents == {AcmeProps, FallbackProps, PrefixProps, DecoyProps, <<>>}

\* No candidate path exists.
NoFiles == [p \in prop_files |-> NoFile]

\* The first existing candidate is path first; with later, the candidates
\* after it exist too and hold other values.
FilesFrom(first, lines, later) ==
    [p \in prop_files |->
        IF p = first THEN File(lines)
        ELSE IF later /\ p > first THEN File(DecoyProps)
        ELSE NoFile]

AllFileSystems ==
    {NoFiles} \cup {FilesFrom(first, lines, later) :
                        first \in prop_files, lines \in PropContents, later \in BOOLEAN}

FileSystems ==
    {NoFiles, FilesFrom(2, AcmeProps, TRUE), FilesFrom(7, FallbackProps, FALSE)}

MachineIdFiles == {[exists |-> FALSE, text |-> ""], [exists |-> TRUE, text |-> "0123abcd\n"]}

NameLine == "androidboot.bootloader = \"abl\"\n"

SecondNameLine == "androidboot.bootloader = \"xbl\"\n"

EmptyNameLine == "androidboot.bootloader = \"\"\n"

SplitNameLine == "androidboot.bootloader = \"a=b\"\n"

SerialLine == "androidboot.serialno = \"123\"\n"

OtherLine == "androidboot.hardware = \"qcom\"\n"

BootTexts ==
    {<<>>, <<NameLine>>, <<SerialLine>>, <<OtherLine>>,
     <<NameLine, SerialLine>>, <<SerialLine, NameLine>>, <<OtherLine, SerialLine>>,
     <<NameLine, OtherLine>>, <<SplitNameLine, SerialLine>>, <<EmptyNameLine, SerialLine>>,
     <<NameLine, SecondNameLine, SerialLine>>}

\* err: "none" (read to the end), "open" (open() raises), "read" (the read
\* raises after the lines given).
BootConfigs ==
    {[err |-> "none", lines |-> l] : l \in BootTexts}
    \cup {[err |-> "open", lines |-> <<>>]}
    \cup {[err |-> "read", lines |-> l] : l \in {<<SerialLine>>, <<NameLine>>}}

NoProperties == [x \in {} |-> ""]

ModemRecords ==
    {[wellformed |-> FALSE, properties |-> NoProperties],
     [wellformed |-> TRUE,
      properties |-> [Revision |-> "MPSS.1", Serial |-> "356", SoftwareVersionNumber |-> "07"]],
     [wellformed |-> TRUE,
      properties |-> [Revision |-> "MPSS.2", SoftwareVersionNumber |-> ""]]}

Telephony ==
    {[status |-> "absent", modems |-> <<>>], [status |-> "callerror", modems |-> <<>>]}
    \cup {[status |-> "reply", modems |-> m] : m \in SeqsUpTo(ModemRecords, MaxModems)}

SensorText(version) ==
    CASE version = "1.0" -> "{ 3 0 \"Accel\"H \"Bosch\"H 2 }"
      [] version = "2.0" -> "[ { 1 0 \"Gyro\"H \"ST\"H 1 }, { 2 1 \"Mag\"H \"AKM\"H 10 } ]\n"
      [] version = "2.1" -> "[ { 7 0 \"Prox\"H \"AMS\"H 4 }, { x 0 \"Bad\"H \"AMS\"H 4 }, { 7 0 \"Prox\"H \"AMS\"H 4 } ]\n"

Versions == {sensor_hal[i] : i \in 1..Len(sensor_hal)}

SensorHals ==
    {h \in [Versions -> {"", " \n"} \cup {SensorText(v) : v \in Versions}] :
        \A v \in Versions : h[v] \in {"", " \n", SensorText(v)}}

-----------------------------------------------------------------------------
(* The interface object and the facade.                                    *)

\* Lines 21-37.
InitialProps ==
    [DaemonVersion |-> "1.9.12", HostBkc |-> "", HostVendor |-> "", HostProduct |-> "",
     HostMachineId |-> "", HostSecurityId |-> "1", Tainted |-> FALSE,
     Interactive |-> FALSE, Status |-> 1, Percentage |-> 0, BatteryLevel |-> 101,
     OnlyTrusted |-> TRUE, Devices |-> <<>>, Plugins |-> <<[Name |-> "hybris"]>>]

None == [type |-> "NoneType"]

NoReply == [op |-> "", value |-> None]

NoResult == [raised |-> NoExc, value |-> ""]

Env == [fs |-> fs, machine_id_file |-> machine_id_file, bootconfig |-> bootconfig,
        ofono |-> ofono, hal |-> hal]

NewFrame ==
    [exc |-> NoExc, props |-> props, probed |-> probed, origin |-> origin,
     locals |-> [x \in {} |-> ""]]

\* The object when the constructor reaches line 39, self.props built and
\* set_props not yet run, in any of the environments above.
Init ==
    /\ pc = "new"
    /\ fs \in FileSystems
    /\ machine_id_file \in MachineIdFiles
    /\ bootconfig \in BootConfigs
    /\ ofono \in Telephony
    /\ hal \in SensorHals
    /\ props = InitialProps
    /\ probed = <<>>
    /\ origin = <<>>
    /\ exc = NoExc
    /\ reply = NoReply
    /\ prop = ""
    /\ result = NoResult

\* Lines 17-39 and 370-372: the constructor runs set_props; the object is
\* exported on the bus only when the constructor returns.
FWUPDInterface ==
    /\ pc = "new"
    /\ LET f == set_props(Env, NewFrame)
       IN  /\ props' = f.props
           /\ probed' = f.probed
           /\ origin' = f.origin
           /\ exc' = f.exc
           /\ pc' = IF f.exc = NoExc THEN "exported" ELSE "crashed"
    /\ UNCHANGED <<fs, machine_id_file, bootconfig, ofono, hal, reply, prop, result>>

Frame == <<pc, fs, machine_id_file, bootconfig, ofono, hal, props, probed, origin, exc, prop, result>>

PropertyNames ==
    {"DaemonVersion", "HostBkc", "HostVendor", "HostProduct", "HostMachineId",
     "HostSecurityId", "Tainted", "Interactive", "Status", "Percentage",
     "BatteryLevel", "OnlyTrusted"}

\* Lines 147-193: the read-only properties.
PropertyGet ==
    /\ pc = "exported"
    /\ \E name \in PropertyNames : reply' = [op |-> name, value |-> props[name]]
    /\ UNCHANGED Frame

\* Mutant of GetDevices: the query runs the aggregation pass again.
GetDevicesReprobe ==
    /\ pc = "exported"
    /\ LET f == set_props(Env, NewFrame)
       IN  /\ props' = f.props
           /\ probed' = f.probed
           /\ origin' = f.origin
           /\ reply' = [op |-> "GetDevices", value |-> f.props.Devices]
    /\ UNCHANGED <<pc, fs, machine_id_file, bootconfig, ofono, hal, exc, prop, result>>

\* Lines 195-197.
GetDevices ==
    /\ pc = "exported"
    /\ reply' = [op |-> "GetDevices", value |-> props.Devices]
    /\ UNCHANGED Frame

\* Lines 199-201.
GetPlugins ==
    /\ pc = "exported"
    /\ reply' = [op |-> "GetPlugins", value |-> props.Plugins]
    /\ UNCHANGED Frame

ListStubs ==
    {"GetReleases", "GetDowngrades", "GetUpgrades", "GetDetails", "GetHistory",
     "GetHostSecurityAttrs", "GetHostSecurityEvents", "GetReportMetadata", "GetResults",
     "GetRemotes", "GetApprovedFirmware", "GetBlockedFirmware", "GetBiosSettings",
     "EmulationSave"}

PassStubs ==
    {"SetHints", "Install", "Verify", "Unlock", "Activate", "SetApprovedFirmware",
     "SetBlockedFirmware", "SetFeatureFlags", "ClearResults", "ModifyDevice",
     "ModifyConfig", "UpdateMetadata", "ModifyRemote", "FixHostSecurityAttr",
     "UndoHostSecurityAttr", "SetBiosSettings", "Uninhibit", "Quit", "EmulationLoad"}

StrStubs == {"SelfSign", "Inhibit"}

\* What a caller may pass; the stubs ignore it.
Arguments == {<<>>, <<"1">>, <<"no-such-device", "key", "value">>}

\* The stubs that return [].
StubList ==
    /\ pc = "exported"
    /\ \E m \in ListStubs, args \in Arguments : reply' = [op |-> m, value |-> <<>>]
    /\ UNCHANGED Frame

\* The stubs whose body is pass.
StubPass ==
    /\ pc = "exported"
    /\ \E m \in PassStubs, args \in Arguments : reply' = [op |-> m, value |-> None]
    /\ UNCHANGED Frame

\* The stubs that return ''.
StubStr ==
    /\ pc = "exported"
    /\ \E m \in StrStubs, args \in Arguments : reply' = [op |-> m, value |-> ""]
    /\ UNCHANGED Frame

\* Start-up alone: every environment, one aggregation pass.
Spec == Init /\ [][FWUPDInterface]_vars

\* The environments the facade is exercised in.
InitFacade ==
    /\ Init
    /\ bootconfig.err = "none" /\ Len(bootconfig.lines) = 2
    /\ Len(ofono.modems) <= 1
    /\ \A v \in Versions : v # "1.0" => hal[v] = ""

Next ==
    \/ FWUPDInterface
    \/ PropertyGet
    \/ GetDevices
    \/ GetPlugins
    \/ StubList
    \/ StubPass
    \/ StubStr

\* Start-up followed by any sequence of facade calls.
SpecFacade == InitFacade /\ [][Next]_vars

-----------------------------------------------------------------------------
(* extract_prop on its own: every key against every file system.           *)

PropertyKeys == {"ro.product.vendor.manufacturer", "ro.product.vendor.name", "ro.bootloader"}

InitExtract ==
    /\ pc = "call"
    /\ fs \in AllFileSystems
    /\ prop \in PropertyKeys
    /\ result = NoResult
    /\ machine_id_file = [exists |-> FALSE, text |-> ""]
    /\ bootconfig = [err |-> "open", lines |-> <<>>]
    /\ ofono = [status |-> "absent", modems |-> <<>>]
    /\ hal = [v \in Versions |-> ""]
    /\ props = InitialProps
    /\ probed = <<>>
    /\ origin = <<>>
    /\ exc = NoExc
    /\ reply = NoReply

\* Lines 344-365, called with the key prop.
ExtractPropCall ==
    /\ pc = "call"
    /\ result' = extract_prop(fs, prop)
    /\ pc' = "returned"
    /\ UNCHANGED <<fs, machine_id_file, bootconfig, ofono, hal, props, probed, origin,
                   exc, reply, prop>>

SpecExtract == InitExtract /\ [][ExtractPropCall]_vars

-----------------------------------------------------------------------------
(* What the claims are stated with.  The expected sensor records and the   *)
(* expected invocations are written out by hand from the inputs, not       *)
(* computed with the operators that model the parsing and the probe loop.  *)

Range(seq) == {seq[i] : i \in 1..Len(seq)}

\* The devices a source contributed, in list order.
RECURSIVE DevicesFromAt(_, _)
DevicesFromAt(source, i) ==
    IF i > Len(origin) THEN <<>>
    ELSE (IF origin[i] = source THEN <<props.Devices[i]>> ELSE <<>>)
         \o DevicesFromAt(source, i + 1)

DevicesFrom(source) == DevicesFromAt(source, 1)

\* The binder-call invocations made so far, in order.
SensorAttempts == SelectSeq(probed, LAMBDA p : p \in {"sensors@1.0", "sensors@2.0", "sensors@2.1"})

Blank(text) == text \in {"", " \n"}

\* The records of each sensor output: <<number, name, vendor, version>>.
ExpectedRecords(version) ==
    CASE version = "1.0" -> << <<"3", "Accel", "Bosch", "2">> >>
      [] version = "2.0" -> << <<"1", "Gyro", "ST", "1">>, <<"2", "Mag", "AKM", "10">> >>
      [] version = "2.1" -> << <<"7", "Prox", "AMS", "4">>, <<"7", "Prox", "AMS", "4">> >>

\* The records of the output the probe settles on: that of the first ABI
\* version, in the order 1.0, 2.0, 2.1, whose output is not blank.
SettledRecords ==
    IF ~Blank(hal["1.0"]) THEN ExpectedRecords("1.0")
    ELSE IF ~Blank(hal["2.0"]) THEN ExpectedRecords("2.0")
    ELSE IF ~Blank(hal["2.1"]) THEN ExpectedRecords("2.1")
    ELSE <<>>

SettledAttempts ==
    IF ~Blank(hal["1.0"]) THEN <<"sensors@1.0">>
    ELSE IF ~Blank(hal["2.0"]) THEN <<"sensors@1.0", "sensors@2.0">>
    ELSE <<"sensors@1.0", "sensors@2.0", "sensors@2.1">>

TelephonyReached == "ofono" \in Range(probed)

SensorsProbed == "sensors@1.0" \in Range(probed)

HasMarker(lines, marker) == \E i \in 1..Len(lines) : Contains(lines[i], marker)

-----------------------------------------------------------------------------

FieldMissing ==
    /\ ofono.status = "reply"
    /\ Len(ofono.modems) >= 1
    /\ \A i \in 1..Len(ofono.modems) : ofono.modems[i].wellformed
    /\ \E field \in Range(ModemFields) :
           \A i \in 1..Len(ofono.modems) : field \notin DOMAIN ofono.modems[i].properties

TelephonyFailure ==
    \/ ofono.status \in {"absent", "callerror"}
    \/ ofono.status = "reply"
       /\ \E i \in 1..Len(ofono.modems) : ~ofono.modems[i].wellformed
    \/ FieldMissing

(* C1: whenever the telephony probe fails (service absent, GetModems       *)
(* raising, a malformed record in the reply, or a reply of well-formed     *)
(* records none of which carries one of Revision, Serial and               *)
(* SoftwareVersionNumber), set_props raises nothing, the DeviceList has no *)
(* modem entry, and the sensor probe has run.                              *)
C1_TelephonyFailureIsolated ==
    (pc # "new" /\ TelephonyReached /\ TelephonyFailure) =>
        /\ exc = NoExc
        /\ "modem" \notin Range(origin)
        /\ SensorsProbed

(* C2: with none of the seven candidate paths existing, extract_prop       *)
(* returns the empty string for every key and raises nothing.              *)
C2_NoFileGivesEmpty ==
    (pc = "returned" /\ fs = NoFiles) => (result.raised = NoExc /\ result.value = "")

SerialMarkerOnly ==
    /\ bootconfig.err = "none"
    /\ HasMarker(bootconfig.lines, "androidboot.serialno")
    /\ ~HasMarker(bootconfig.lines, "androidboot.bootloader")

(* C3: for a boot configuration read to its end that has a line with the   *)
(* androidboot.serialno marker and no line with the androidboot.bootloader *)
(* marker, the aggregation pass completes and the DeviceList has no        *)
(* bootloader Device.                                                      *)
C3_SerialOnlyCompletes ==
    (pc # "new" /\ "bootconfig" \in Range(probed) /\ SerialMarkerOnly) =>
        (pc = "exported" /\ "bootloader" \notin Range(origin))

AcmeScenario ==
    /\ \E p \in prop_files :
           /\ fs[p] = File(AcmeProps)
           /\ \A q \in 1..(p - 1) : ~fs[q].exists
    /\ bootconfig.err = "none"
    /\ bootconfig.lines \in {<<NameLine, SerialLine>>, <<SerialLine, NameLine>>}
    /\ ofono.status \in {"absent", "callerror"}
    /\ \A v \in Versions : Blank(hal[v])

AcmeDevice(d) ==
    /\ d.DeviceId = "1" /\ d.Name = "abl" /\ d.Vendor = "Acme Bootloader"
    /\ d.Version = "1" /\ d.Serial = "123" /\ d.Flags = 2

(* C4: with a property file declaring manufacturer acme and product name   *)
(* widget, a boot configuration declaring bootloader abl and serial 123,   *)
(* the telephony service unavailable and every sensor attempt returning    *)
(* blank output, the object is exported, GetDevices returns exactly one    *)
(* Device {id "1", name "abl", vendor "Acme Bootloader", version "1",      *)
(* serial "123", flags 2}, and HostVendor and HostProduct read "ACME" and  *)
(* "WIDGET".                                                               *)
C4_EndToEnd ==
    (AcmeScenario /\ pc # "new") =>
        /\ pc = "exported"
        /\ Len(props.Devices) = 1 /\ AcmeDevice(props.Devices[1])
        /\ props.HostVendor = "ACME" /\ props.HostProduct = "WIDGET"
        /\ reply.op = "GetDevices" => (Len(reply.value) = 1 /\ AcmeDevice(reply.value[1]))
        /\ reply.op = "HostVendor" => reply.value = "ACME"
        /\ reply.op = "HostProduct" => reply.value = "WIDGET"

C4_Witness == AcmeScenario /\ reply.op = "GetDevices"

(* C5 as claimed: from the output { 3 0 "Accel"H "Bosch"H 2 } exactly one  *)
(* sensor Device, whose id is "3", name "Accel", vendor "Bosch" and        *)
(* version "2"; each record's leading number becomes the Device id.        *)
C5_SensorNumberIsId ==
    pc = "exported" =>
        LET sensors == DevicesFrom("sensor")
        IN  /\ Len(sensors) = Len(SettledRecords)
            /\ \A i \in 1..Len(sensors) :
                   /\ sensors[i].DeviceId = SettledRecords[i][1]
                   /\ sensors[i].Name = SettledRecords[i][2]
                   /\ sensors[i].Vendor = SettledRecords[i][3]
                   /\ sensors[i].Version = SettledRecords[i][4]

(* C5 as amended: from the output { 3 0 "Accel"H "Bosch"H 2 } exactly one  *)
(* sensor Device, whose serial is "3", name "Accel", vendor "Bosch",       *)
(* version "2" and id "1"; each record's leading number becomes the Device *)
(* serial, and the id of every sensor Device is "1".                       *)
C5_SensorNumberIsSerial ==
    pc = "exported" =>
        LET sensors == DevicesFrom("sensor")
        IN  /\ Len(sensors) = Len(SettledRecords)
            /\ \A i \in 1..Len(sensors) :
                   /\ sensors[i].DeviceId = "1"
                   /\ sensors[i].Serial = SettledRecords[i][1]
                   /\ sensors[i].Name = SettledRecords[i][2]
                   /\ sensors[i].Vendor = SettledRecords[i][3]
                   /\ sensors[i].Version = SettledRecords[i][4]
            /\ hal["1.0"] = "{ 3 0 \"Accel\"H \"Bosch\"H 2 }" =>
                   sensors = << [DeviceId |-> "1", Name |-> "Accel", Vendor |-> "Bosch",
                                 Version |-> "2", Plugin |-> "hybris",
                                 Protocol |-> "hybris", Flags |-> 2, Serial |-> "3"] >>

C5_Witness ==
    /\ pc = "exported"
    /\ hal["1.0"] = "{ 3 0 \"Accel\"H \"Bosch\"H 2 }"
    /\ Len(DevicesFrom("sensor")) = 1

(* C6: the probe invokes the ABI versions in the order 1.0, 2.0, 2.1 and   *)
(* stops after the first whose output is not blank: the invocations made   *)
(* are exactly those up to that version, the sensor Devices are the        *)
(* records of that version's output alone, and with all three outputs      *)
(* blank all three are invoked and there is no sensor Device.  A pass that *)
(* raised before the probe invoked nothing.                                *)
C6_FirstNonBlankWins ==
    /\ pc = "exported" =>
           /\ SensorAttempts = SettledAttempts
           /\ Len(DevicesFrom("sensor")) = Len(SettledRecords)
           /\ \A i \in 1..Len(SettledRecords) :
                  DevicesFrom("sensor")[i].Name = SettledRecords[i][2]
    /\ pc # "exported" => SensorAttempts = <<>>

C6_Witness ==
    /\ pc = "exported"
    /\ hal["1.0"] = " \n" /\ ~Blank(hal["2.0"]) /\ ~Blank(hal["2.1"])
    /\ SensorAttempts = <<"sensors@1.0", "sensors@2.0">>
    /\ Len(DevicesFrom("sensor")) = 2

(* C7: once the object is exported, no facade operation changes self.props *)
(* (the DeviceList and the property table) or probes a source, the object  *)
(* stays exported, and every GetDevices reply is the DeviceList that       *)
(* aggregation produced.                                                   *)
C7_FacadeReadsCache ==
    [][pc = "exported" =>
          /\ props' = props
          /\ probed' = probed
          /\ origin' = origin
          /\ pc' = "exported"
          /\ reply'.op = "GetDevices" => reply'.value = props.Devices]_vars

C7_Witness ==
    /\ pc = "exported"
    /\ reply.op = "GetDevices"
    /\ Len(reply.value) >= 2

Rank(source) ==
    CASE source = "bootloader" -> 1
      [] source = "modem" -> 2
      [] source = "sensor" -> 3

(* C8: in the DeviceList the bootloader Device (at most one) precedes the  *)
(* modem Device (at most one), which precedes the sensor Devices; the      *)
(* sensor Devices are one per record of the settled output, in record      *)
(* order, equal records included.                                          *)
C8_DiscoveryOrder ==
    /\ Len(origin) = Len(props.Devices)
    /\ \A i, j \in 1..Len(origin) : i < j => Rank(origin[i]) <= Rank(origin[j])
    /\ Len(DevicesFrom("bootloader")) <= 1
    /\ Len(DevicesFrom("modem")) <= 1
    /\ pc = "exported" =>
           /\ Len(DevicesFrom("sensor")) = Len(SettledRecords)
           /\ \A i \in 1..Len(SettledRecords) :
                  /\ DevicesFrom("sensor")[i].Serial = SettledRecords[i][1]
                  /\ DevicesFrom("sensor")[i].Name = SettledRecords[i][2]

C8_Witness ==
    /\ pc = "exported"
    /\ origin = <<"bootloader", "modem", "sensor", "sensor">>
    /\ props.Devices[3] = props.Devices[4]
    /\ props.Devices[1].DeviceId = props.Devices[2].DeviceId

NameWithoutSerial ==
    /\ bootconfig.err = "none"
    /\ NameLine \in Range(bootconfig.lines)
    /\ Range(bootconfig.lines) \subseteq {NameLine, OtherLine}

NameFromFallback ==
    /\ bootconfig.err = "open"
    /\ fs[7] = File(FallbackProps)
    /\ \A q \in 1..6 : ~fs[q].exists

(* C9: whenever a non-empty bootloader name is obtained and no serial is   *)
(* found (a boot configuration read to its end with a name line and no     *)
(* serial line, or one that cannot be opened with the name taken from      *)
(* ro.bootloader), the pass emits a bootloader Device with that name and   *)
(* an empty serial.                                                        *)
C9_NameWithoutSerialEmits ==
    (pc # "new" /\ "bootconfig" \in Range(probed) /\ (NameWithoutSerial \/ NameFromFallback)) =>
        /\ Len(origin) >= 1 /\ origin[1] = "bootloader"
        /\ props.Devices[1].Name = (IF NameWithoutSerial THEN "abl" ELSE "fbl")
        /\ props.Devices[1].Serial = ""

CallSucceeds ==
    /\ ofono.status = "reply"
    /\ \A i \in 1..Len(ofono.modems) : ofono.modems[i].wellformed

Carriers(field) == {i \in 1..Len(ofono.modems) : field \in DOMAIN ofono.modems[i].properties}

LastCarried(field) == ofono.modems[Max(Carriers(field))].properties[field]

(* C10: when the list-modems call succeeds with well-formed records,       *)
(* exactly one modem Device is appended if the reply has a record and none *)
(* if it has no record, its name and serial are those of the last record   *)
(* carrying Revision and Serial, and the sensor probe runs in both cases.  *)
C10_OneModemPerReply ==
    (pc # "new" /\ TelephonyReached /\ CallSucceeds) =>
        /\ exc = NoExc
        /\ SensorsProbed
        /\ Len(DevicesFrom("modem")) = (IF Len(ofono.modems) >= 1 THEN 1 ELSE 0)
        /\ \A i \in 1..Len(DevicesFrom("modem")) :
               /\ Carriers("Revision") # {} => DevicesFrom("modem")[i].Name = LastCarried("Revision")
               /\ Carriers("Serial") # {} => DevicesFrom("modem")[i].Serial = LastCarried("Serial")

====
